---- MODULE Spec2Model ----
(***************************************************************************)
(* The gesture detector of tpswipe (src/tpswipe.go): the Finger trackers,  *)
(* the EventHandler that ingests evdev events, and the unbuffered Gestures *)
(* channel between the device-reading goroutine and main.                  *)
(*                                                                         *)
(* Time.  The code stamps time.Now() into Finger.ActivationTime and        *)
(* EventHandler.checkTimer and only ever reads them through time.Since.    *)
(* The model keeps each stamp as the elapsed time since it was taken, in   *)
(* milliseconds: a stamp is 0 when taken and the Tick action ages every    *)
(* stamp.  Elapsed times of MaxElapsed or more are all recorded as         *)
(* MaxElapsed (the zero time.Time of a fresh struct is that old).  One     *)
(* handler call is taken to run within one instant.                        *)
(***************************************************************************)
EXTENDS Integers, Sequences, FiniteSets, TLC

(* ------------------------------ bounds --------------------------------- *)

\* The device of one run reports its contacts in two neighbouring slots,
\* s and s + 1 for some s < MaxSlot (the array has 5 slots).
MaxSlot == 2
\* Elapsed times saturate here (milliseconds).
MaxElapsed == 222
\* The live finger count stays within -MaxDeficit .. MaxCount when tracking
\* ids arrive in any order (nothing in the code bounds it).
MaxCount == 3
MaxDeficit == 0
\* The count of gestures emitted in one contact epoch saturates here.
MaxEpochEmitted == 2

\* Position values the device reports.
XValues == {0, 600, 1200}
\* The same where tracking ids arrive in any order.
XCoarse == {0, 1200}
YValues == {0}
\* Time that passes between two events (milliseconds).
TickSteps == {111}
\* No new touch begins on the empty pad while MaxDispatches goroutines of
\* handleGesture are under way.
MaxDispatches == 2
\* calculateCircumference called on its own: up to MaxPoints points, their
\* coordinates from Grid.
MaxPoints == 4
Grid == {0, 10}
\* Position values of the device with a single contact.
XFine == {0, 7, 400}
YFine == {0, 7, 400}

(* ----------------------------- constants ------------------------------- *)

UNKNOWN == 0
SWIPE_UP == 1
SWIPE_DOWN == 2
SWIPE_LEFT == 3
SWIPE_RIGHT == 4
PINCH == 5
SPREAD == 6

DIST_SWIPE == 1100
DIST_OTHER == 500
CHECK_DELAY == 50
\* The literal of detectGesture's "more than some ms since the last reset".
RESET_DELAY == 220
\* len(EventHandler.fingers)
NumFingers == 5

Slots == 0 .. (NumFingers - 1)

Min(a, b) == IF a < b THEN a ELSE b
Abs(a) == IF a < 0 THEN 0 - a ELSE a

(* ------------------------------ geometry ------------------------------- *)

\* int(math.Sqrt(float64(n))): the integer part of the square root.
RECURSIVE SqrtBetween(_, _, _)
SqrtBetween(n, lo, hi) ==
  IF lo >= hi THEN lo
  ELSE LET mid == (lo + hi + 1) \div 2
       IN IF mid * mid <= n THEN SqrtBetween(n, mid, hi) ELSE SqrtBetween(n, lo, mid - 1)

ISqrt(n) == SqrtBetween(n, 0, Min(n, 46340))

calculateDistance(x0, y0, x, y) ==
  ISqrt((x - x0) * (x - x0) + (y - y0) * (y - y0))

\* Total of the loop of calculateCircumference from index i on, p0 the previous point.
RECURSIVE circumferenceLoop(_, _, _)
circumferenceLoop(points, i, p0) ==
  IF i > Len(points) THEN 0
  ELSE calculateDistance(p0[1], p0[2], points[i][1], points[i][2])
       + circumferenceLoop(points, i + 1, points[i])

\* calculateCircumference indexes points[0]: it panics on an empty slice.
circumferencePanics(points) == Len(points) = 0

\* Mutant: two points are not told apart from more.
calculateCircumferenceNoPair(ps) ==
  circumferenceLoop(ps, 1, ps[1])
  + calculateDistance(ps[1][1], ps[1][2], ps[Len(ps)][1], ps[Len(ps)][2])

calculateCircumference(points) ==
  IF Len(points) = 2
  THEN calculateDistance(points[1][1], points[1][2], points[2][1], points[2][2])
  ELSE circumferenceLoop(points, 1, points[1])
       + calculateDistance(points[1][1], points[1][2],
                           points[Len(points)][1], points[Len(points)][2])

\* tan(k degrees) * 10^6 for k = 0..45, at index k + 1.
TanE6 ==
  << 0, 17455, 34921, 52408, 69927, 87489, 105104, 122785, 140541, 158384,
     176327, 194380, 212557, 230868, 249328, 267949, 286745, 305731, 324920,
     344328, 363970, 383864, 404026, 424475, 445229, 466308, 487733, 509525,
     531709, 554309, 577350, 600861, 624869, 649408, 674509, 700208, 726543,
     753554, 781286, 809784, 839100, 869287, 900404, 932515, 965689, 1000000 >>

\* The whole degrees in atan(p / q), rounded down and up, for 0 <= p <= q, q > 0.
AtanLowFloor(p, q) ==
  CHOOSE k \in 0 .. 45 :
    /\ TanE6[k + 1] * q <= p * 1000000
    /\ \A j \in (k + 1) .. 45 : TanE6[j + 1] * q > p * 1000000
AtanLowCeil(p, q) ==
  CHOOSE k \in 0 .. 45 :
    /\ p * 1000000 <= TanE6[k + 1] * q
    /\ \A j \in 0 .. (k - 1) : p * 1000000 > TanE6[j + 1] * q

\* The same for any p, q >= 0 not both 0: atan(p / q) = 90 - atan(q / p).
AtanFloor(p, q) == IF p <= q THEN AtanLowFloor(p, q) ELSE 90 - AtanLowCeil(q, p)
AtanCeil(p, q) == IF p <= q THEN AtanLowCeil(p, q) ELSE 90 - AtanLowFloor(q, p)

\* int(math.Atan2(dy, dx) * 180.0 / math.Pi): the conversion truncates toward 0.
Atan2Degrees(dy, dx) ==
  IF dy = 0 THEN (IF dx >= 0 THEN 0 ELSE 180)
  ELSE IF dy > 0
       THEN (IF dx >= 0 THEN AtanFloor(dy, dx) ELSE 180 - AtanCeil(dy, 0 - dx))
       ELSE (IF dx >= 0 THEN 0 - AtanFloor(0 - dy, dx)
                        ELSE 0 - (180 - AtanCeil(0 - dy, 0 - dx)))

(* ------------------------------- Finger -------------------------------- *)

\* The zero value of the Finger struct.
ZeroFinger ==
  [ FirstX |-> 0, FirstY |-> 0, LastX |-> 0, LastY |-> 0,
    HasPositionX |-> FALSE, HasPositionY |-> FALSE, IsActive |-> FALSE,
    ActivationTime |-> MaxElapsed ]

reset(finger) ==
  [finger EXCEPT !.ActivationTime = 0, !.HasPositionX = FALSE, !.HasPositionY = FALSE]

activate(finger) == reset([finger EXCEPT !.IsActive = TRUE])

\* Mutant: the lifted finger stays active.
deactivateKeeps(finger) == finger

deactivate(finger) == [finger EXCEPT !.IsActive = FALSE]

\* Mutant: every update latches the first position again.
setPositionXRelatch(finger, x) ==
  [finger EXCEPT !.FirstX = x, !.HasPositionX = TRUE, !.LastX = x]

setPositionX(finger, x) ==
  [finger EXCEPT !.FirstX = IF finger.HasPositionX THEN @ ELSE x,
                 !.HasPositionX = TRUE,
                 !.LastX = x]

setPositionY(finger, y) ==
  [finger EXCEPT !.FirstY = IF finger.HasPositionY THEN @ ELSE y,
                 !.HasPositionY = TRUE,
                 !.LastY = y]

hasPosition(finger) == finger.HasPositionX /\ finger.HasPositionY

\* Mutant: the y axis is not flipped.
getAngleScreenY(finger) ==
  IF ~hasPosition(finger) THEN 0
  ELSE LET dx == finger.LastX - finger.FirstX
           dy == finger.LastY - finger.FirstY
           angle == Atan2Degrees(dy, dx)
       IN IF angle < 0 THEN 360 + angle ELSE angle

getAngle(finger) ==
  IF ~hasPosition(finger) THEN 0
  ELSE LET dx == finger.LastX - finger.FirstX
           dy == 0 - (finger.LastY - finger.FirstY)
           angle == Atan2Degrees(dy, dx)
       IN IF angle < 0 THEN 360 + angle ELSE angle

getDirection(finger) ==
  LET angle == getAngle(finger)
  IN IF angle >= 45 /\ angle <= 135 THEN SWIPE_UP
     ELSE IF angle >= 135 /\ angle <= 225 THEN SWIPE_LEFT
     ELSE IF angle >= 225 /\ angle <= 315 THEN SWIPE_DOWN
     ELSE IF angle >= 315 \/ angle <= 45 THEN SWIPE_RIGHT
     ELSE UNKNOWN

getDistance(finger) ==
  IF ~hasPosition(finger) THEN 0
  ELSE calculateDistance(finger.LastX, finger.LastY, finger.FirstX, finger.FirstY)

\* Mutant: no delay after the stamp.
hasSwipedAtOnce(finger, distanceThreshold) ==
  IF ~hasPosition(finger) THEN FALSE
  ELSE getDistance(finger) > distanceThreshold

hasSwiped(finger, distanceThreshold) ==
  IF ~hasPosition(finger) THEN FALSE
  ELSE IF finger.ActivationTime < CHECK_DELAY THEN FALSE
  ELSE getDistance(finger) > distanceThreshold

(* ---------------------------- configuration ---------------------------- *)

\* The fields of ActionCollection: Swipe2Left .. Spread5, one per gesture type
\* and finger count.  A field's name holds exactly one digit, its finger count.
ActionFields == [GestureType : SWIPE_UP .. SPREAD, FingerCount : 2 .. 5]

NoActions == [field \in ActionFields |-> ""]

\* A command string that shellwords.Parse rejects: a quote left open.
Unparsable == {"'"}

\* A configuration file: two-finger actions for every window, and more for the
\* windows of class "term", among them one for Swipe2Down that has a quote
\* left open.
cfg ==
  [ Actions |->
      [ class \in {"", "term"} |->
          IF class = ""
          THEN [field \in ActionFields |->
                  IF /\ field.FingerCount = 2
                     /\ field.GestureType \in {SWIPE_DOWN, SWIPE_LEFT, SWIPE_RIGHT, PINCH}
                  THEN "global" ELSE ""]
          ELSE [field \in ActionFields |->
                  IF field.FingerCount = 2 /\ field.GestureType \in {SWIPE_RIGHT, SPREAD}
                  THEN "term"
                  ELSE IF field.FingerCount = 2 /\ field.GestureType = SWIPE_DOWN
                  THEN "'" ELSE ""] ] ]

\* The same file without its global section.
cfgNoGlobal == [ Actions |-> [ class \in {"term"} |-> cfg.Actions["term"] ] ]

\* The configurations, by name: handleGesture is handed a pointer to one.
Configs == [main |-> cfg, noGlobal |-> cfgNoGlobal]

\* What getActiveWindowClass may return: "" when the query fails.
WindowClasses == {"", "term", "xclock"}

\* A nil *exec.Cmd; any other command is its argv.
Nil == <<>>

\* The command strings of the configurations are single words but for the
\* unparsable one: argv is the word.
createCommand(command) ==
  IF command \in Unparsable THEN Nil ELSE <<command>>

getCommand(gest, actions) ==
  IF gest \in ActionFields /\ actions[gest] # ""
  THEN createCommand(actions[gest])
  ELSE Nil

\* The command handleGesture runs, Nil when it runs none.
handleGestureCommand(gest, className, config) ==
  LET tables == DOMAIN config.Actions
      own == IF className \in tables THEN getCommand(gest, config.Actions[className]) ELSE Nil
      table == IF className \in tables /\ own # Nil THEN className ELSE ""
  IN IF table \notin tables THEN Nil ELSE getCommand(gest, config.Actions[table])

getConfiguredFingers(config) ==
  { j \in 1 .. 5 :
      \E class \in DOMAIN config.Actions :
        \E field \in ActionFields :
          config.Actions[class][field] # "" /\ field.FingerCount = j }

(* ---------------------------- EventHandler ----------------------------- *)

VARIABLES
  fingers,          \* EventHandler.fingers
  currentSlot,      \* EventHandler.currentSlot
  lastGesture,      \* EventHandler.lastGesture
  fingerCount,      \* EventHandler.fingerCount
  checkTimer,       \* EventHandler.checkTimer, as the time elapsed since the stamp
  suspend,          \* EventHandler.suspend
  Gestures,         \* EventHandler.Gestures: the value a blocked send offers, if any
  pc,               \* where the goroutine of EventHandler.run is
  deviceSlots,      \* environment: the slots the device of this run uses
  epochEmitted,     \* history: gestures emitted since the pad was last touched while empty
  prevEpochGesture, \* history: the last gesture of an earlier epoch, <<>> if none
  epochGesture,     \* history: the last gesture of this epoch, <<>> if none
  dispatches,       \* the goroutines of handleGesture that main has started
  points,           \* calculateCircumference called on its own: its argument
  total             \* calculateCircumference called on its own: <<>>, or its result

handlerVars == <<fingers, currentSlot, lastGesture, fingerCount, checkTimer, suspend>>
historyVars == <<epochEmitted, prevEpochGesture, epochGesture>>
otherFlows == <<dispatches, points, total>>
vars == <<fingers, currentSlot, lastGesture, fingerCount, checkTimer, suspend,
          Gestures, pc, deviceSlots, epochEmitted, prevEpochGesture, epochGesture,
          dispatches, points, total>>

configuredFingers == getConfiguredFingers(cfg)

ActiveSlots(fs) == {i \in Slots : fs[i].IsActive}

\* EventHandler{Gestures: make(chan Gesture), configuredFingers: ...}, and run started.
construction ==
  /\ fingers = [i \in Slots |-> ZeroFinger]
  /\ currentSlot = 0
  /\ lastGesture = UNKNOWN
  /\ fingerCount = 0
  /\ checkTimer = MaxElapsed
  /\ suspend = FALSE
  /\ Gestures = <<>>
  /\ pc = "read"
  /\ epochEmitted = 0
  /\ prevEpochGesture = <<>>
  /\ epochGesture = <<>>
  /\ dispatches = <<>>
  /\ points = <<>>
  /\ total = <<>>

Init ==
  /\ construction
  /\ deviceSlots \in {{s, s + 1} : s \in 0 .. (MaxSlot - 1)}

\* Mutant: no finger is reset.
resetFingersKeeps(fs) == fs

\* The fingers after resetFingers.
resetFingers(fs) == [i \in Slots |-> reset(fs[i])]

\* Mutant: a finger that swiped another way does not end the loop.
RECURSIVE swipeLoopKeepsGoing(_, _, _, _)
swipeLoopKeepsGoing(fs, i, isSwipe, gesture) ==
  IF i >= NumFingers
  THEN [aborted |-> FALSE, isSwipe |-> isSwipe, gesture |-> gesture]
  ELSE IF ~fs[i].IsActive
  THEN swipeLoopKeepsGoing(fs, i + 1, isSwipe, gesture)
  ELSE IF hasSwiped(fs[i], DIST_SWIPE)
  THEN IF i = 0
       THEN swipeLoopKeepsGoing(fs, i + 1, TRUE, getDirection(fs[i]))
       ELSE swipeLoopKeepsGoing(fs, i + 1, TRUE, gesture)
  ELSE [aborted |-> TRUE, isSwipe |-> isSwipe, gesture |-> gesture]

\* The straight-swipe loop of detectGesture from finger i on.  aborted: the loop
\* returned from detectGesture; otherwise it ended or broke with isSwipe, gesture.
RECURSIVE swipeLoop(_, _, _, _)
swipeLoop(fs, i, isSwipe, gesture) ==
  IF i >= NumFingers
  THEN [aborted |-> FALSE, isSwipe |-> isSwipe, gesture |-> gesture]
  ELSE IF ~fs[i].IsActive
  THEN swipeLoop(fs, i + 1, isSwipe, gesture)
  ELSE IF hasSwiped(fs[i], DIST_SWIPE)
  THEN IF i = 0
       THEN swipeLoop(fs, i + 1, TRUE, getDirection(fs[i]))
       ELSE IF getDirection(fs[i]) # gesture
       THEN [aborted |-> FALSE, isSwipe |-> FALSE, gesture |-> gesture]
       ELSE swipeLoop(fs, i + 1, TRUE, gesture)
  ELSE [aborted |-> TRUE, isSwipe |-> isSwipe, gesture |-> gesture]

\* The positions calculateGesture collects from finger i on.
RECURSIVE collectPositions(_, _, _)
collectPositions(fs, i, last) ==
  IF i >= NumFingers THEN <<>>
  ELSE IF ~fs[i].IsActive THEN collectPositions(fs, i + 1, last)
  ELSE << IF last THEN <<fs[i].LastX, fs[i].LastY>> ELSE <<fs[i].FirstX, fs[i].FirstY>> >>
       \o collectPositions(fs, i + 1, last)

\* Mutant: no finger is held to DIST_OTHER.
radialIncompleteNever(fs) == FALSE

\* calculateGesture returns UNKNOWN at the first active finger below DIST_OTHER.
radialIncomplete(fs) == \E i \in ActiveSlots(fs) : ~hasSwiped(fs[i], DIST_OTHER)

\* calculateGesture reaches calculateCircumference with no point collected.
calculateGesturePanics(fs) ==
  ~radialIncomplete(fs) /\ circumferencePanics(collectPositions(fs, 0, FALSE))

calculateGesture(fs) ==
  IF radialIncomplete(fs) THEN UNKNOWN
  ELSE LET start == calculateCircumference(collectPositions(fs, 0, FALSE))
           end == calculateCircumference(collectPositions(fs, 0, TRUE))
       IN IF start > end THEN PINCH ELSE SPREAD

\* Mutant: the configured finger counts are not consulted.
detectionSkippedIgnoringConfig(count, timeDiff) ==
  count < 2 \/ timeDiff < CHECK_DELAY

\* detectGesture's first test: not enough fingers, or not enough time since the reset.
detectionSkipped(count, timeDiff) ==
  count \notin configuredFingers \/ count < 2 \/ timeDiff < CHECK_DELAY

\* detectGesture's test before resetting on an incomplete swipe.
resetDue(timeDiff) == timeDiff > RESET_DELAY

\* Mutant: whatever calculateGesture returns is emitted.
radialEmitsAlways(last, gesture) == TRUE

\* The tests around emitGesture: a straight swipe, and another gesture.
swipeEmits(last, gesture) == last # gesture
radialEmits(last, gesture) == gesture # UNKNOWN /\ last # gesture

\* Mutant: the channel has a buffer, the send returns at once.
emitGestureBuffered(gesture) ==
  /\ lastGesture' = gesture.GestureType
  /\ Gestures' = Append(Gestures, gesture)
  /\ suspend' = TRUE
  /\ fingers' = resetFingers(fingers)
  /\ checkTimer' = 0
  /\ epochEmitted' = Min(epochEmitted + 1, MaxEpochEmitted)
  /\ epochGesture' = <<gesture>>
  /\ UNCHANGED <<currentSlot, fingerCount, pc, deviceSlots, otherFlows, prevEpochGesture>>

\* Mutant: the emitted kind is not remembered.
emitGestureForgets(gesture) ==
  /\ Gestures' = <<gesture>>
  /\ pc' = "send"
  /\ epochEmitted' = Min(epochEmitted + 1, MaxEpochEmitted)
  /\ epochGesture' = <<gesture>>
  /\ UNCHANGED <<fingers, currentSlot, lastGesture, fingerCount, checkTimer, suspend,
                 deviceSlots, otherFlows, prevEpochGesture>>

\* emitGesture up to its send on the unbuffered channel, where the goroutine blocks.
emitGesture(gesture) ==
  /\ lastGesture' = gesture.GestureType
  /\ Gestures' = <<gesture>>
  /\ pc' = "send"
  /\ epochEmitted' = Min(epochEmitted + 1, MaxEpochEmitted)
  /\ epochGesture' = <<gesture>>
  /\ UNCHANGED <<fingers, currentSlot, fingerCount, checkTimer, suspend, deviceSlots, otherFlows,
                 prevEpochGesture>>

\* The end of detectGesture: resetFingers, nothing emitted.
detectReset ==
  /\ fingers' = resetFingers(fingers)
  /\ checkTimer' = 0
  /\ UNCHANGED <<currentSlot, lastGesture, fingerCount, suspend, Gestures, pc,
                 deviceSlots, otherFlows, historyVars>>

\* What detectGesture does with the handler's fields: nothing, a reset of the
\* fingers, a gesture emitted (resetFingers follows the send), or a panic.
detection(fs, count, timeDiff, last) ==
  LET loop == swipeLoop(fs, 0, FALSE, UNKNOWN)
      nothing == [does |-> "nothing", gesture |-> UNKNOWN]
      resets == [does |-> "reset", gesture |-> UNKNOWN]
  IN IF detectionSkipped(count, timeDiff) THEN nothing
     ELSE IF loop.aborted
     THEN IF resetDue(timeDiff) THEN resets ELSE nothing
     ELSE IF loop.isSwipe
     THEN IF swipeEmits(last, loop.gesture)
          THEN [does |-> "emit", gesture |-> loop.gesture]
          ELSE resets
     ELSE IF calculateGesturePanics(fs)
     THEN [does |-> "panic", gesture |-> UNKNOWN]
     ELSE LET gesture == calculateGesture(fs)
          IN IF radialEmits(last, gesture)
             THEN [does |-> "emit", gesture |-> gesture]
             ELSE resets

detectGesture ==
  LET found == detection(fingers, fingerCount, checkTimer, lastGesture)
  IN CASE found.does = "nothing" -> UNCHANGED vars
       [] found.does = "reset" -> detectReset
       [] found.does = "emit" ->
            emitGesture([GestureType |-> found.gesture, FingerCount |-> fingerCount])
       [] found.does = "panic" ->
            /\ pc' = "panic"
            /\ UNCHANGED <<handlerVars, Gestures, deviceSlots, otherFlows, historyVars>>

\* The receiver takes the offered gesture; the sender returns from emitGesture
\* and detectGesture goes on: suspend = true, resetFingers.
sendCompletes ==
  /\ pc = "send"
  /\ Gestures' = <<>>
  /\ suspend' = TRUE
  /\ fingers' = resetFingers(fingers)
  /\ checkTimer' = 0
  /\ pc' = "read"
  /\ UNCHANGED <<currentSlot, lastGesture, fingerCount, deviceSlots, otherFlows, historyVars>>

\* Mutant: the suspend flag is not consulted.
detectionDueIgnoringSuspend(code, suspended) == code = "SYN_REPORT"

\* handleSynEvent's test: only after a report event and not suspended.
detectionDue(code, suspended) == code = "SYN_REPORT" /\ ~suspended

handleSynEvent(code) ==
  /\ pc = "read"
  /\ IF detectionDue(code, suspend) THEN detectGesture ELSE UNCHANGED vars

\* Mutant: a touch on the empty pad is not recognised.
freshTouchNever(prevCount) == FALSE

\* handleAbsEvent's test: previously no finger was touching.
freshTouch(prevCount) == prevCount = 0

\* The ABS_MT_TRACKING_ID case of handleAbsEvent.
trackingId(value) ==
  LET prevCount == fingerCount
      touched == [fingers EXCEPT ![currentSlot] =
                    IF value = -1 THEN deactivate(@) ELSE activate(@)]
      newEpoch == ActiveSlots(fingers) = {} /\ value # -1
  IN /\ fingerCount' = IF value = -1 THEN fingerCount - 1 ELSE fingerCount + 1
     /\ fingers' = resetFingers(touched)
     /\ checkTimer' = 0
     /\ lastGesture' = IF freshTouch(prevCount) THEN UNKNOWN ELSE lastGesture
     /\ suspend' = IF freshTouch(prevCount) THEN FALSE ELSE suspend
     /\ epochEmitted' = IF newEpoch THEN 0 ELSE epochEmitted
     /\ epochGesture' = IF newEpoch THEN <<>> ELSE epochGesture
     /\ prevEpochGesture' = IF newEpoch /\ epochGesture # <<>> THEN epochGesture
                            ELSE prevEpochGesture
     /\ UNCHANGED <<currentSlot, Gestures, pc, deviceSlots, otherFlows>>

handleAbsEvent(code, value) ==
  /\ pc = "read"
  /\ CASE code = "ABS_MT_SLOT" ->
            /\ currentSlot' = value
            /\ UNCHANGED <<fingers, lastGesture, fingerCount, checkTimer, suspend,
                           Gestures, pc, deviceSlots, otherFlows, historyVars>>
       [] code = "ABS_MT_TRACKING_ID" ->
            trackingId(value)
       [] code = "ABS_MT_POSITION_X" ->
            /\ fingers' = [fingers EXCEPT ![currentSlot] = setPositionX(@, value)]
            /\ UNCHANGED <<currentSlot, lastGesture, fingerCount, checkTimer, suspend,
                           Gestures, pc, deviceSlots, otherFlows, historyVars>>
       [] code = "ABS_MT_POSITION_Y" ->
            /\ fingers' = [fingers EXCEPT ![currentSlot] = setPositionY(@, value)]
            /\ UNCHANGED <<currentSlot, lastGesture, fingerCount, checkTimer, suspend,
                           Gestures, pc, deviceSlots, otherFlows, historyVars>>
       [] OTHER -> UNCHANGED vars

(* ----------------------------- environment ----------------------------- *)

SynCodes == {"SYN_REPORT", "SYN_MT_REPORT"}
\* -1 lifts the contact of the current slot, any other value is a new contact.
TrackingValues == {-1, 0}

\* A tracking id the kernel's slot protocol can send: a new contact on a free
\* slot, a lift of a slot in contact.
slotProtocol(value) == fingers[currentSlot].IsActive <=> value = -1

countBounded(value) ==
  IF value = -1 THEN fingerCount > 0 - MaxDeficit ELSE fingerCount < MaxCount

\* The events of the device; ordered: tracking ids follow the slot protocol and
\* positions are reported for slots in contact only.
deviceEvent(ordered, xs) ==
  \/ \E code \in SynCodes : handleSynEvent(code)
  \/ \E slot \in deviceSlots : handleAbsEvent("ABS_MT_SLOT", slot)
  \/ \E value \in TrackingValues :
       /\ IF ordered THEN slotProtocol(value) ELSE countBounded(value)
       /\ handleAbsEvent("ABS_MT_TRACKING_ID", value)
  \/ \E x \in xs :
       /\ ordered => fingers[currentSlot].IsActive
       /\ handleAbsEvent("ABS_MT_POSITION_X", x)
  \/ \E y \in YValues :
       /\ ordered => fingers[currentSlot].IsActive
       /\ handleAbsEvent("ABS_MT_POSITION_Y", y)
  \/ handleAbsEvent("ABS_PRESSURE", 0)

\* Time passes: every stamp grows older.
Tick(d) ==
  /\ pc # "panic"
  /\ checkTimer' = Min(checkTimer + d, MaxElapsed)
  /\ fingers' = [i \in Slots |->
                   [fingers[i] EXCEPT !.ActivationTime = Min(@ + d, MaxElapsed)]]
  /\ UNCHANGED <<currentSlot, lastGesture, fingerCount, suspend, Gestures, pc,
                 deviceSlots, otherFlows, historyVars>>

\* A device that follows the slot protocol.
Next ==
  \/ deviceEvent(TRUE, XValues)
  \/ sendCompletes
  \/ \E d \in TickSteps : Tick(d)

Spec == Init /\ [][Next]_vars

\* A device that sends tracking ids in any order.
NextAny ==
  \/ deviceEvent(FALSE, XCoarse)
  \/ sendCompletes
  \/ \E d \in TickSteps : Tick(d)

\* Its contacts are in slots 0 and 1.
InitAny ==
  /\ construction
  /\ deviceSlots = {0, 1}

SpecAny == InitAny /\ [][NextAny]_vars

\* A device with a single contact, in slot 0, that reports positions off the
\* axes as well.
NextFinger ==
  \/ \E code \in SynCodes : handleSynEvent(code)
  \/ \E slot \in deviceSlots : handleAbsEvent("ABS_MT_SLOT", slot)
  \/ \E value \in TrackingValues :
       /\ slotProtocol(value)
       /\ handleAbsEvent("ABS_MT_TRACKING_ID", value)
  \/ \E x \in XFine :
       /\ fingers[currentSlot].IsActive
       /\ handleAbsEvent("ABS_MT_POSITION_X", x)
  \/ \E y \in YFine :
       /\ fingers[currentSlot].IsActive
       /\ handleAbsEvent("ABS_MT_POSITION_Y", y)
  \/ \E d \in TickSteps : Tick(d)

InitFinger ==
  /\ construction
  /\ deviceSlots = {0}

SpecFinger == InitFinger /\ [][NextFinger]_vars

\* go handleGesture(&gest, xutil, &cfg): a goroutine at the start of
\* handleGesture; config names its configuration, className is what its query
\* of the active window will return.
goHandleGesture(gest, config, className) ==
  dispatches' = Append(dispatches,
                       [gest |-> gest, cfg |-> config, className |-> className,
                        pc |-> "start", cmd |-> Nil])

RemoveAt(seq, k) == SubSeq(seq, 1, k - 1) \o SubSeq(seq, k + 1, Len(seq))

\* handleGesture of the k-th goroutine up to cmd.Run(), where it waits for the
\* command to exit; it returns at once when it has no command.
handleGesture(k) ==
  /\ dispatches[k].pc = "start"
  /\ LET cmd == handleGestureCommand(dispatches[k].gest, dispatches[k].className,
                                     Configs[dispatches[k].cfg])
     IN dispatches' = IF cmd = Nil THEN RemoveAt(dispatches, k)
                      ELSE [dispatches EXCEPT ![k].pc = "run", ![k].cmd = cmd]
  /\ UNCHANGED <<handlerVars, Gestures, pc, deviceSlots, historyVars, points, total>>

\* The command of the k-th goroutine exits, cmd.Run() and handleGesture return.
commandExits(k) ==
  /\ dispatches[k].pc = "run"
  /\ dispatches' = RemoveAt(dispatches, k)
  /\ UNCHANGED <<handlerVars, Gestures, pc, deviceSlots, historyVars, points, total>>

\* Mutant: handleGesture is called without go, main is back at its receive
\* only when no handleGesture is under way.
mainAtReceiveWhenIdle(ds) == ds = <<>>

\* main is at its receive again as soon as it has started the goroutine.
mainAtReceive(ds) == TRUE

\* The loop of main without -test: it receives the offered gesture and starts
\* a goroutine of handleGesture; the sender returns from emitGesture and
\* detectGesture goes on: suspend = true, resetFingers.
dispatchLoop(classes) ==
  /\ pc = "send"
  /\ mainAtReceive(dispatches)
  /\ \E className \in classes : goHandleGesture(Gestures[1], "main", className)
  /\ Gestures' = <<>>
  /\ suspend' = TRUE
  /\ fingers' = resetFingers(fingers)
  /\ checkTimer' = 0
  /\ pc' = "read"
  /\ UNCHANGED <<currentSlot, lastGesture, fingerCount, deviceSlots, historyVars,
                 points, total>>

\* The program without -test, its device following the slot protocol, a
\* window of class "term" active.
NextNormal ==
  \/ /\ fingerCount > 0 \/ Len(dispatches) < MaxDispatches
     /\ deviceEvent(TRUE, XCoarse)
  \/ dispatchLoop({"term"})
  \/ \E k \in DOMAIN dispatches : handleGesture(k)
  \/ \E k \in DOMAIN dispatches : commandExits(k)
  \/ \E d \in TickSteps : Tick(d)

\* main always comes back to its receive; a command may never exit.
SpecNormal == InitAny /\ [][NextNormal]_vars /\ WF_vars(dispatchLoop({"term"}))

\* handleGesture called on its own, on any gesture, configuration and window.
NextDispatch ==
  \/ \E gest \in ActionFields, config \in DOMAIN Configs, className \in WindowClasses :
       /\ dispatches = <<>>
       /\ goHandleGesture(gest, config, className)
       /\ UNCHANGED <<handlerVars, Gestures, pc, deviceSlots, historyVars, points, total>>
  \/ \E k \in DOMAIN dispatches : handleGesture(k)
  \/ \E k \in DOMAIN dispatches : commandExits(k)

SpecDispatch == InitAny /\ [][NextDispatch]_vars

\* calculateCircumference called on its own, on any slice of points.
PointSlices == UNION {[1 .. n -> Grid \X Grid] : n \in 0 .. MaxPoints}

circumferenceCall ==
  \E ps \in PointSlices :
    /\ pc = "read"
    /\ points' = ps
    /\ IF circumferencePanics(ps)
       THEN pc' = "panic" /\ total' = <<>>
       ELSE pc' = pc /\ total' = <<calculateCircumference(ps)>>
    /\ UNCHANGED <<handlerVars, Gestures, deviceSlots, historyVars, dispatches>>

SpecCircumference == InitAny /\ [][circumferenceCall]_vars

(* ------------------------------- claims -------------------------------- *)

SwipeKinds == {SWIPE_UP, SWIPE_DOWN, SWIPE_LEFT, SWIPE_RIGHT}

\* What detectGesture makes of the fingers when it runs: the kind it arrives
\* at before the test against lastGesture, UNKNOWN when it arrives at none.
classified ==
  LET loop == swipeLoop(fingers, 0, FALSE, UNKNOWN)
  IN IF detectionSkipped(fingerCount, checkTimer) \/ loop.aborted THEN UNKNOWN
     ELSE IF loop.isSwipe THEN loop.gesture
     ELSE IF calculateGesturePanics(fingers) THEN UNKNOWN
     ELSE calculateGesture(fingers)

\* A frame-report sync handled now emits the gesture.
syncEmits(gesture) ==
  LET found == detection(fingers, fingerCount, checkTimer, lastGesture)
  IN /\ pc = "read"
     /\ detectionDue("SYN_REPORT", suspend)
     /\ found.does = "emit"
     /\ gesture = [GestureType |-> found.gesture, FingerCount |-> fingerCount]

\* A frame-report sync handled now changes nothing.
syncIsNoOp == ENABLED (handleSynEvent("SYN_REPORT") /\ UNCHANGED vars)

\* C1: a device that follows the slot protocol gets at most one gesture out of
\* a contact epoch: after an emission nothing more is emitted until every
\* finger has lifted and a new contact has been added.
C1_OneGesturePerEpoch == epochEmitted <= 1

\* A gesture has been emitted in this epoch, the fingers have moved on to where
\* detection would arrive at a gesture again, and the handler awaits the sync.
C1_Witness ==
  /\ pc = "read"
  /\ epochEmitted = 1
  /\ classified # UNKNOWN
  /\ classified # epochGesture[1].GestureType

\* C2: once every finger has lifted after an emission and the pad is touched
\* again, suspend is false and lastGesture is UNKNOWN until the next emission,
\* and a sync that finds the gesture of the previous epoch again emits it again.
C2_RetouchResets ==
  (prevEpochGesture # <<>> /\ epochEmitted = 0) =>
     /\ ~suspend
     /\ lastGesture = UNKNOWN
     /\ (pc = "read" /\ classified = prevEpochGesture[1].GestureType) =>
           syncEmits([GestureType |-> classified, FingerCount |-> fingerCount])

\* The gesture of the previous epoch is being emitted again.
C2_Witness ==
  /\ pc = "send"
  /\ prevEpochGesture # <<>>
  /\ Gestures = prevEpochGesture

\* The finger has a latched position and has moved more than the threshold.
movedPast(finger, threshold) == hasPosition(finger) /\ getDistance(finger) > threshold

\* Every finger in contact has moved more than DIST_SWIPE, in direction kind.
allSwiped(kind) ==
  /\ ActiveSlots(fingers) # {}
  /\ \A i \in ActiveSlots(fingers) :
       movedPast(fingers[i], DIST_SWIPE) /\ getDirection(fingers[i]) = kind

\* CHECK_DELAY has passed since the reset timer and since every stamp.
debounceElapsed ==
  /\ checkTimer >= CHECK_DELAY
  /\ \A i \in ActiveSlots(fingers) : fingers[i].ActivationTime >= CHECK_DELAY

\* The handler awaits an event, is not suspended, and its count is that of the
\* fingers in contact, a count with a configured action.
readyToDetect ==
  /\ pc = "read"
  /\ ~suspend
  /\ fingerCount \in 2 .. 5
  /\ fingerCount \in configuredFingers
  /\ Cardinality(ActiveSlots(fingers)) = fingerCount

\* C3: when every finger in contact has moved more than DIST_SWIPE in one
\* direction and the debounce has elapsed, a frame-report sync emits the swipe
\* of that direction with the live finger count, whichever slots are in contact.
C3_SwipeFromAnySlots ==
  \A kind \in SwipeKinds :
    (readyToDetect /\ debounceElapsed /\ allSwiped(kind)) =>
       syncEmits([GestureType |-> kind, FingerCount |-> fingerCount])

\* C3 with the finger of slot 0 in contact, where the loop takes its candidate
\* direction: the swipe is emitted.
C3_WithSlotZero == fingers[0].IsActive => C3_SwipeFromAnySlots

\* The gesture being emitted.
sending == Gestures[1]

\* C4: while a swipe is being emitted every finger in contact has a latched
\* position, has moved more than DIST_SWIPE and has the direction emitted, so
\* no two fingers in contact differ in direction.
C4_SwipeMeansAllAgree ==
  (pc = "send" /\ sending.GestureType \in SwipeKinds) =>
     /\ \A i \in ActiveSlots(fingers) :
          /\ movedPast(fingers[i], DIST_SWIPE)
          /\ getDirection(fingers[i]) = sending.GestureType
     /\ \A i, j \in ActiveSlots(fingers) :
          getDirection(fingers[i]) = getDirection(fingers[j])

\* A swipe of two fingers is being emitted.
C4_Witness ==
  /\ pc = "send"
  /\ sending.GestureType \in SwipeKinds
  /\ Cardinality(ActiveSlots(fingers)) = 2
  /\ fingerCount = 2

\* The distance between the two fingers in contact, at their first positions
\* (last = FALSE) and at their last positions.
spanOfTwo(last) ==
  LET i == CHOOSE i \in ActiveSlots(fingers) : \A j \in ActiveSlots(fingers) : i <= j
      j == CHOOSE j \in ActiveSlots(fingers) : \A k \in ActiveSlots(fingers) : k <= j
  IN IF last
     THEN calculateDistance(fingers[i].LastX, fingers[i].LastY,
                            fingers[j].LastX, fingers[j].LastY)
     ELSE calculateDistance(fingers[i].FirstX, fingers[i].FirstY,
                            fingers[j].FirstX, fingers[j].FirstY)

\* C5: two fingers in contact that have both moved more than DIST_OTHER, in two
\* different directions: a frame-report sync emits Pinch when they began
\* further apart than they ended, and Spread otherwise.
C5_RadialPastDistOther ==
  ( /\ readyToDetect
    /\ fingerCount = 2
    /\ debounceElapsed
    /\ \A i \in ActiveSlots(fingers) : movedPast(fingers[i], DIST_OTHER)
    /\ \E i, j \in ActiveSlots(fingers) :
         getDirection(fingers[i]) # getDirection(fingers[j]) ) =>
     syncEmits([GestureType |-> IF spanOfTwo(FALSE) > spanOfTwo(TRUE) THEN PINCH ELSE SPREAD,
                FingerCount |-> 2])

\* C5 with both fingers past DIST_SWIPE, which the swipe loop asks of the
\* fingers it examines before calculateGesture runs: Pinch or Spread is emitted.
C5_RadialPastDistSwipe ==
  ( /\ readyToDetect
    /\ fingerCount = 2
    /\ debounceElapsed
    /\ \A i \in ActiveSlots(fingers) : movedPast(fingers[i], DIST_SWIPE)
    /\ \E i, j \in ActiveSlots(fingers) :
         getDirection(fingers[i]) # getDirection(fingers[j]) ) =>
     syncEmits([GestureType |-> IF spanOfTwo(FALSE) > spanOfTwo(TRUE) THEN PINCH ELSE SPREAD,
                FingerCount |-> 2])

\* A frame-report sync handled now emits nothing and resets every finger.
syncOnlyResets ==
  ENABLED ( /\ handleSynEvent("SYN_REPORT")
            /\ fingers' = resetFingers(fingers)
            /\ checkTimer' = 0
            /\ UNCHANGED <<currentSlot, lastGesture, fingerCount, suspend, Gestures, pc>> )

\* C6: when detection runs and some finger in contact has not moved more than
\* DIST_SWIPE while those that have agree on a direction, a frame-report sync
\* emits nothing; it resets every finger when more than RESET_DELAY has passed
\* since the reset timer and changes nothing otherwise.
C6_IncompleteSwipe ==
  ( /\ readyToDetect
    /\ ~detectionSkipped(fingerCount, checkTimer)
    /\ \E i \in ActiveSlots(fingers) : ~movedPast(fingers[i], DIST_SWIPE)
    /\ \A i, j \in ActiveSlots(fingers) :
         (movedPast(fingers[i], DIST_SWIPE) /\ movedPast(fingers[j], DIST_SWIPE))
            => getDirection(fingers[i]) = getDirection(fingers[j]) ) =>
     IF checkTimer > RESET_DELAY THEN syncOnlyResets ELSE syncIsNoOp

\* C6 with the finger of slot 0 in contact: nothing is emitted, and the fingers
\* are reset exactly when more than RESET_DELAY has passed.
C6_WithSlotZero == fingers[0].IsActive => C6_IncompleteSwipe

\* C7: handling an event never ends the process, whatever the order of the
\* events.
C7_IngestionNeverFails == pc # "panic"

\* C8: no Gesture of kind UNKNOWN is sent on the channel.
C8_UnknownNeverEmitted ==
  Gestures # <<>> => sending.GestureType \in (SwipeKinds \cup {PINCH, SPREAD})

\* Detection has run past the swipe loop into calculateGesture, which returns
\* UNKNOWN for these fingers: one has moved past DIST_SWIPE, in slot 1, and
\* one has not moved past DIST_OTHER.
C8_Witness ==
  /\ readyToDetect
  /\ ~detectionSkipped(fingerCount, checkTimer)
  /\ ~swipeLoop(fingers, 0, FALSE, UNKNOWN).aborted
  /\ ~swipeLoop(fingers, 0, FALSE, UNKNOWN).isSwipe
  /\ calculateGesture(fingers) = UNKNOWN
  /\ syncOnlyResets

\* No table of the configuration holds a command for this finger count.
noActionFor(count) ==
  \A class \in DOMAIN cfg.Actions :
    \A field \in ActionFields :
      field.FingerCount = count => cfg.Actions[class][field] = ""

\* C9: an emitted Gesture carries the live finger count, which is in 2..5 and
\* has a command in some table; a frame-report sync at a count below 2, or at
\* a count without any command, emits nothing and changes nothing.
C9_CountConfigured ==
  /\ pc = "send" =>
       /\ sending.FingerCount = fingerCount
       /\ sending.FingerCount \in 2 .. 5
       /\ ~noActionFor(sending.FingerCount)
  /\ (pc = "read" /\ (fingerCount < 2 \/ noActionFor(fingerCount))) => syncIsNoOp

\* Three contacts counted, no command for three fingers, and the finger of
\* slot 0 has swiped: with a command for three fingers a sync would emit.
C9_Witness ==
  /\ pc = "read"
  /\ ~suspend
  /\ fingerCount = 3
  /\ noActionFor(3)
  /\ debounceElapsed
  /\ \E kind \in SwipeKinds : allSwiped(kind)
  /\ fingers[0].IsActive

\* C10: nothing is emitted less than CHECK_DELAY after the last reset: while a
\* gesture is sent the reset timer and every stamp are at least that old, a
\* finger stamped less than CHECK_DELAY ago has not swiped whatever its
\* distance, and a sync less than CHECK_DELAY after the reset changes nothing.
C10_Debounce ==
  /\ pc = "send" =>
       /\ checkTimer >= CHECK_DELAY
       /\ \A i \in Slots : fingers[i].ActivationTime >= CHECK_DELAY
  /\ \A i \in Slots :
       fingers[i].ActivationTime < CHECK_DELAY =>
          ~hasSwiped(fingers[i], 0) /\ ~hasSwiped(fingers[i], DIST_SWIPE)
  /\ (pc = "read" /\ checkTimer < CHECK_DELAY) => syncIsNoOp

\* Both fingers have already moved past DIST_SWIPE in one direction, less than
\* CHECK_DELAY after the reset.
C10_Witness ==
  /\ readyToDetect
  /\ checkTimer < CHECK_DELAY
  /\ \E kind \in SwipeKinds : allSwiped(kind)
  /\ fingers[0].IsActive

\* C11: between two resets FirstX is the value of the first setPositionX and no
\* later update changes it, LastX is the value of the latest setPositionX and
\* nothing else changes it; the same for FirstY, LastY and setPositionY.
C11_FirstLatchedLastFollows ==
  [][ \A i \in Slots :
        LET before == fingers[i]
            after == fingers'[i]
        IN /\ (before.HasPositionX /\ after.HasPositionX) => after.FirstX = before.FirstX
           /\ (~before.HasPositionX /\ after.HasPositionX) => after.FirstX = after.LastX
           /\ ~after.HasPositionX => after.LastX = before.LastX
           /\ (before.HasPositionY /\ after.HasPositionY) => after.FirstY = before.FirstY
           /\ (~before.HasPositionY /\ after.HasPositionY) => after.FirstY = after.LastY
           /\ ~after.HasPositionY => after.LastY = before.LastY
           /\ \A x \in XFine : setPositionX(before, x).LastX = x
           /\ \A y \in YFine : setPositionY(before, y).LastY = y ]_vars

\* The finger of slot 0 has moved on from its first position in x and in y.
C11_Witness ==
  /\ hasPosition(fingers[0])
  /\ fingers[0].FirstX # fingers[0].LastX
  /\ fingers[0].FirstY # fingers[0].LastY

\* The entry the lookup is to arrive at: that of the window's own table if
\* there is such a table and the entry is not empty, else that of the global
\* table if not empty, else "".
entryFor(gest, className, config) ==
  LET tables == DOMAIN config.Actions
  IN IF className \in tables /\ config.Actions[className][gest] # ""
     THEN config.Actions[className][gest]
     ELSE IF "" \in tables /\ config.Actions[""][gest] # ""
     THEN config.Actions[""][gest]
     ELSE ""

\* The goroutine takes its step from the start of handleGesture and runs the
\* entry, or runs nothing when there is no entry or the entry cannot be parsed.
runsEntry(entry) ==
  IF entry = "" \/ entry \in Unparsable
  THEN dispatches' = <<>>
  ELSE /\ Len(dispatches') = 1
       /\ dispatches'[1].pc = "run"
       /\ dispatches'[1].cmd = <<entry>>

\* C12: handleGesture runs the entry of the window's own table if that table
\* exists and the entry is not empty, else the entry of the global table if
\* not empty, else nothing; it runs at most one command.
C12_ClassThenGlobal ==
  [][ (dispatches # <<>> /\ dispatches[1].pc = "start") =>
         runsEntry(entryFor(dispatches[1].gest, dispatches[1].className,
                            Configs[dispatches[1].cfg])) ]_vars

\* C12 for entries that parse: the lookup runs the entry it is to arrive at.
C12_ParsableEntries ==
  [][ ( /\ dispatches # <<>>
        /\ dispatches[1].pc = "start"
        /\ \A class \in DOMAIN Configs[dispatches[1].cfg].Actions :
             Configs[dispatches[1].cfg].Actions[class][dispatches[1].gest]
                \notin Unparsable ) =>
         runsEntry(entryFor(dispatches[1].gest, dispatches[1].className,
                            Configs[dispatches[1].cfg])) ]_vars

\* The goroutine runs the command of the window's own table where the global
\* table has another.
C12_Witness ==
  /\ dispatches # <<>>
  /\ dispatches[1].pc = "run"
  /\ dispatches[1].cmd = <<"term">>
  /\ dispatches[1].cfg = "main"
  /\ cfg.Actions[""][dispatches[1].gest] = "global"

\* The goroutine of run can handle an event now.
readerCanIngest ==
  ENABLED (handleSynEvent("SYN_MT_REPORT") \/ handleSynEvent("SYN_REPORT"))

\* C13 as stated: with a gesture emitted and not yet received, the goroutine
\* of run can go on handling events.
C13_EmitNeverBlocks == Gestures # <<>> => readerCanIngest

\* C13 amended: the channel holds no gesture; one emitted gesture is offered by
\* the sender, which stays in its send and handles no event until the receiver
\* takes it.
C13_SendBlocksReader ==
  /\ Len(Gestures) <= 1
  /\ Gestures # <<>> =>
       /\ pc = "send"
       /\ ~readerCanIngest
       /\ ENABLED sendCompletes

\* A Spread of the fingers of slots 0 and 1 is offered, and time has passed
\* since detection began.
C13_Witness ==
  /\ pc = "send"
  /\ sending.GestureType = SPREAD
  /\ fingers[0].IsActive
  /\ checkTimer = MaxElapsed

\* C14: without -test every gesture offered on the channel is received and a
\* goroutine of handleGesture started for it, whatever commands are still
\* running; with goroutines under way main can receive and run can handle
\* events.
C14_EveryGestureDispatched ==
  /\ [](pc = "send" => ENABLED dispatchLoop({"term"}))
  /\ []((pc = "read" /\ dispatches # <<>>) => readerCanIngest)
  /\ (pc = "send") ~> ( /\ pc = "read"
                        /\ dispatches # <<>>
                        /\ <<dispatches[Len(dispatches)].gest>> = epochGesture )

\* A gesture is offered while the command of an earlier one is running.
C14_Witness ==
  /\ pc = "send"
  /\ \E k \in DOMAIN dispatches : dispatches[k].pc = "run"

\* C15: with a latched position getDirection is SWIPE_RIGHT for dx > 0, dy = 0,
\* SWIPE_LEFT for dx < 0, dy = 0, SWIPE_UP for dx = 0 and LastY < FirstY,
\* SWIPE_DOWN for dx = 0 and LastY > FirstY; it is never UNKNOWN.
C15_AxisDirections ==
  \A i \in Slots :
    LET finger == fingers[i]
        dx == finger.LastX - finger.FirstX
    IN /\ getDirection(finger) # UNKNOWN
       /\ hasPosition(finger) =>
            /\ (dx > 0 /\ finger.LastY = finger.FirstY) => getDirection(finger) = SWIPE_RIGHT
            /\ (dx < 0 /\ finger.LastY = finger.FirstY) => getDirection(finger) = SWIPE_LEFT
            /\ (dx = 0 /\ finger.LastY < finger.FirstY) => getDirection(finger) = SWIPE_UP
            /\ (dx = 0 /\ finger.LastY > finger.FirstY) => getDirection(finger) = SWIPE_DOWN

\* The finger of slot 0 has moved straight up the screen.
C15_Witness ==
  /\ hasPosition(fingers[0])
  /\ fingers[0].LastX = fingers[0].FirstX
  /\ fingers[0].LastY < fingers[0].FirstY
  /\ getDirection(fingers[0]) = SWIPE_UP

\* The distances between consecutive points from the i-th on, added up.
RECURSIVE pathLength(_, _)
pathLength(ps, i) ==
  IF i >= Len(ps) THEN 0
  ELSE calculateDistance(ps[i][1], ps[i][2], ps[i + 1][1], ps[i + 1][2])
       + pathLength(ps, i + 1)

\* The corners of a square of side 10, in order.
Square == << <<0, 0>>, <<0, 10>>, <<10, 10>>, <<10, 0>> >>

\* C16: calculateCircumference of 2 points is their distance, counted once and
\* cut to an integer (14 across the diagonal of the square); of 3 or more
\* points it is the sum of the distances between consecutive points plus the
\* distance from the last back to the first; of the square's corners it is 40.
C16_Circumference ==
  total # <<>> =>
     /\ Len(points) = 2 =>
          total[1] = calculateDistance(points[1][1], points[1][2],
                                       points[2][1], points[2][2])
     /\ points = << <<0, 0>>, <<10, 10>> >> => total[1] = 14
     /\ Len(points) >= 3 =>
          total[1] = pathLength(points, 1)
                     + calculateDistance(points[Len(points)][1], points[Len(points)][2],
                                         points[1][1], points[1][2])
     /\ points = Square => total[1] = 40

\* calculateCircumference has returned 40 for the corners of the square.
C16_Witness == points = Square /\ total = <<40>>

\* C17: a tracking-id event clears HasPositionX and HasPositionY of all five
\* fingers and restamps their stamps and checkTimer, changes IsActive of the
\* current slot only and leaves currentSlot alone; and while a gesture is sent
\* every finger in contact has a position latched since.
C17_TrackingIdResetsAll ==
  [][ /\ fingerCount' # fingerCount =>
           /\ \A i \in Slots :
                /\ ~fingers'[i].HasPositionX
                /\ ~fingers'[i].HasPositionY
                /\ fingers'[i].ActivationTime = 0
           /\ checkTimer' = 0
           /\ \A i \in Slots \ {currentSlot} : fingers'[i].IsActive = fingers[i].IsActive
           /\ fingers'[currentSlot].IsActive = (fingerCount' > fingerCount)
           /\ currentSlot' = currentSlot
      /\ pc' = "send" => \A i \in ActiveSlots(fingers') : hasPosition(fingers'[i]) ]_vars

\* One finger is left in contact, just stamped, its flags cleared while its
\* fields still hold a movement past DIST_SWIPE: at a count of one only a
\* tracking id resets.
C17_Witness ==
  /\ pc = "read"
  /\ fingerCount = 1
  /\ checkTimer = 0
  /\ \E i \in ActiveSlots(fingers) :
       /\ ~fingers[i].HasPositionX
       /\ ~fingers[i].HasPositionY
       /\ Abs(fingers[i].LastX - fingers[i].FirstX) > DIST_SWIPE

\* Detection runs, the swipe loop broke at a finger of another direction, and
\* some finger in contact has not moved more than DIST_OTHER.
mismatchThenIncomplete ==
  /\ readyToDetect
  /\ debounceElapsed
  /\ ~swipeLoop(fingers, 0, FALSE, UNKNOWN).aborted
  /\ ~swipeLoop(fingers, 0, FALSE, UNKNOWN).isSwipe
  /\ \E i \in ActiveSlots(fingers) : ~movedPast(fingers[i], DIST_OTHER)

\* A frame-report sync handled now takes detectGesture to its reset of the
\* fingers with nothing emitted.
syncEndsInReset ==
  /\ pc = "read"
  /\ detectionDue("SYN_REPORT", suspend)
  /\ detection(fingers, fingerCount, checkTimer, lastGesture).does = "reset"

C19_SuspendIffEmitted ==
  pc = "read" =>
     /\ suspend <=> lastGesture # UNKNOWN
     /\ ~suspend =>
          \A kind \in SwipeKinds \cup {PINCH, SPREAD} :
            swipeEmits(lastGesture, kind) /\ radialEmits(lastGesture, kind)

\* After an emission one finger has lifted and one is still in contact.
C19_Witness ==
  /\ pc = "read"
  /\ suspend
  /\ lastGesture # UNKNOWN
  /\ fingerCount = 1

\* C20: for a device that follows the slot protocol fingerCount is the number
\* of active fingers and lies in 0..5, and a Gesture being sent carries the
\* number of active fingers.
C20_CountIsActive ==
  /\ fingerCount = Cardinality(ActiveSlots(fingers))
  /\ fingerCount \in 0 .. 5
  /\ pc = "send" => sending.FingerCount = Cardinality(ActiveSlots(fingers))

\* A Gesture of the two fingers in contact is being sent, after the fingers of
\* an earlier epoch have lifted.
C20_Witness ==
  /\ pc = "send"
  /\ prevEpochGesture # <<>>
  /\ ActiveSlots(fingers) = deviceSlots
  /\ sending.FingerCount = 2

====
